---- MODULE Spec2Model ----
(***************************************************************************)
(* Model of the glTF asset loader of rendy-pbr (src/asset.rs): the buffer  *)
(* cache GltfBuffers, the texture loader load_gltf_texture and the mesh /  *)
(* material loader load_gltf_mesh working on three Option-slot arenas.     *)
(***************************************************************************)
EXTENDS Integers, Sequences, FiniteSets, TLC

VARIABLES gltf, faulty, buffers, material_storage, primitive_storage,
          mesh_storage, last, mesh_origin, builder_ran, failures, partition,
          threads, writes

vars == <<gltf, faulty, buffers, material_storage, primitive_storage,
          mesh_storage, last, mesh_origin, builder_ran, failures, partition,
          threads, writes>>

(* ------------------------------ bounds --------------------------------- *)

MeshSlots == 3
MaterialSlots == 2
MaxBase == 1
MaxInstances == 2
MaxPrimitives == 3
MaxFailures == 1
MaxFileLen == 1

(* --------------------------- Option values ----------------------------- *)

None == <<>>
Some(x) == <<x>>
IsSome(o) == Len(o) = 1
IsNone(o) == Len(o) = 0
Unwrap(o) == o[1]

(* ------------------------- the glTF documents -------------------------- *)

StreamOrder == <<"indices", "positions", "normals", "tangents", "tex_coords">>
Streams == {StreamOrder[i] : i \in 1..Len(StreamOrder)}

StreamError ==
  [s \in Streams |->
     CASE s = "indices" -> "Mesh primitive does not contain indices"
       [] s = "positions" -> "Primitive does not have positions"
       [] s = "normals" -> "Primitive does not have normals"
       [] s = "tangents" -> "Primitive does not have tangents"
       [] s = "tex_coords" -> "Primitive does not have tex coords"]

RequiredTextures == <<"base_color", "metallic_roughness", "normal", "occlusion">>
TextureSlots == RequiredTextures \o <<"emissive">>
TextureNames == {TextureSlots[i] : i \in 1..Len(TextureSlots)}

TextureError ==
  [t \in TextureNames |->
     CASE t = "base_color" -> "Material has no base color texture"
       [] t = "metallic_roughness" -> "Material has no metallic_roughness texture"
       [] t = "normal" -> "Material has no normal texture"
       [] t = "occlusion" -> "Material has no occlusion texture"
       [] t = "emissive" -> ""]

SrgbFlag_AllSrgb ==
  [t \in TextureNames |-> TRUE]

\* the srgb argument load_gltf_mesh passes to load_gltf_texture for each slot
SrgbFlag ==
  [t \in TextureNames |-> t \in {"base_color", "emissive"}]

UriImage(name) == [source |-> "Uri", uri |-> name]
ViewImage == [source |-> "View", uri |-> ""]

Material(name, lacking, embedded) ==
  [t \in TextureNames |->
     IF t \in lacking THEN None
     ELSE IF t \in embedded THEN Some(ViewImage)
     ELSE Some(UriImage(name))]

Prim(buf, lacking, mat) ==
  [accessors |-> [s \in Streams |-> IF s \in lacking THEN None ELSE Some(buf)],
   material |-> mat]

FileBuffer(name, len) == [source |-> "Uri", scheme |-> "file", uri |-> name, length |-> len]
DataBuffer(len) == [source |-> "Uri", scheme |-> "data", uri |-> "", length |-> len]
BinBuffer(len) == [source |-> "Bin", scheme |-> "", uri |-> "", length |-> len]

\* the scenario document of the specification: two meshes, the second with
\* two primitives sharing material 0
DocumentA ==
  [buffers |-> <<FileBuffer("a.bin", 1)>>,
   materials |-> <<Material("a0", {"emissive"}, {}), Material("a1", {}, {})>>,
   meshes |-> << <<Prim(0, {}, Some(1))>>,
                 <<Prim(0, {}, Some(0)), Prim(0, {}, Some(0))>> >>]

\* a document with defects: a primitive lacking stream s at position pos of
\* mesh 0; material 1 lacking the required textures lack and holding embedded
\* images in the slots emb; a primitive with the default material; a second
\* buffer of source kind src, read by mesh 1 when it is a file
DocumentB(s, pos, lack, emb, src) ==
  [buffers |-> <<FileBuffer("a.bin", 1),
                 CASE src = "file" -> FileBuffer("b.bin", 1)
                   [] src = "data" -> DataBuffer(1)
                   [] src = "bin" -> BinBuffer(1)>>,
   materials |-> <<Material("b0", {}, {}), Material("b1", lack, emb)>>,
   meshes |-> << IF pos = 1
                 THEN <<Prim(0, {s}, Some(0)), Prim(0, {}, Some(0))>>
                 ELSE <<Prim(0, {}, Some(0)), Prim(0, {s}, Some(0))>>,
                 <<Prim(IF src = "file" THEN 1 ELSE 0, {}, Some(1)),
                   Prim(0, {}, None)>> >>]

\* the defects of document B and the texture slot whose image the
\* environment may fail to read or to build
Variants ==
  { <<"indices", 2, {"base_color"}, {}, "file", "normal">>,
    <<"positions", 1, {"metallic_roughness"}, {"base_color"}, "data", "base_color">>,
    <<"normals", 2, {"normal"}, {}, "bin", "occlusion">>,
    <<"tangents", 2, {"occlusion"}, {}, "file", "emissive">>,
    <<"tex_coords", 1, {}, {"emissive"}, "file", "metallic_roughness">> }

\* a document without defects: two meshes of one primitive each, on the two
\* materials, the first with an emissive texture and the second without
DocumentC ==
  [buffers |-> <<FileBuffer("a.bin", 1)>>,
   materials |-> <<Material("c0", {}, {}), Material("c1", {"emissive"}, {})>>,
   meshes |-> << <<Prim(0, {}, Some(0))>>, <<Prim(0, {}, Some(1))>> >>]

Documents(v) == <<DocumentA, DocumentB(v[1], v[2], v[3], v[4], v[5])>>

FileNames == {"a.bin", "b.bin"}
Bytes == <<10, 11, 12, 13, 14>>
FileContents == {SubSeq(Bytes, 1, n) : n \in 0..MaxFileLen}
\* a file is absent or unreadable (None) or holds some bytes
FileSystems == [FileNames -> {None} \cup {Some(c) : c \in FileContents}]

(* ------------------------------ GltfBuffers ---------------------------- *)

Ok(v) == [kind |-> "Ok", value |-> Some(v), msg |-> ""]
Err(m) == [kind |-> "Err", value |-> None, msg |-> m]
Panic(m) == [kind |-> "Panic", value |-> None, msg |-> m]

LengthOk_Skipped(data, declared) == TRUE

\* line 90: the loaded bytes cover the length the document declares
LengthOk(data, declared) == Len(data) >= declared

RECURSIVE load_buffers_from(_, _, _, _)
load_buffers_from(decls, fs, i, acc) ==
  IF i > Len(decls) THEN Ok(acc)
  ELSE LET b == decls[i] IN
    IF b.source # "Uri" THEN Panic("not implemented")
    ELSE IF b.scheme = "data" THEN Panic("not implemented")
    ELSE IF IsNone(fs[b.uri]) THEN Err("io")
    ELSE LET data == Unwrap(fs[b.uri]) IN
      IF ~LengthOk(data, b.length) THEN Panic("assertion failed: data.len() >= buffer.length()")
      ELSE load_buffers_from(decls, fs, i + 1, Append(acc, data))

load_from_gltf(doc, fs) == load_buffers_from(doc.buffers, fs, 1, <<>>)

\* GltfBuffers::buffer: the loaded buffer at a buffer index, if any
buffer(set, index) ==
  IF index + 1 \in DOMAIN set THEN Some(set[index + 1]) ELSE None

\* GltfBuffers::view: the bytes offset .. offset + length of the view's
\* buffer; the slice of line 107 panics when it ends beyond the buffer
view(set, v) ==
  LET data == buffer(set, v.buffer) IN
    IF IsNone(data) THEN Ok(None)
    ELSE LET begin == v.offset
             end == begin + v.length
         IN IF end > Len(Unwrap(data)) THEN Panic("range end index out of range for slice")
            ELSE Ok(Some(SubSeq(Unwrap(data), begin + 1, end)))

(* --------------------------- events of a call -------------------------- *)

\* one step of a load_gltf_mesh call: op is the step, prim the position of
\* the primitive in the mesh, slot the texture slot and handle the arena
\* handle it concerns (-1 and "" where the step has none)
Event(op, prim, slot, handle, image, srgb, mips) ==
  [op |-> op, prim |-> prim, slot |-> slot, handle |-> handle,
   image |-> image, srgb |-> srgb, mips |-> mips]

Step(op, prim, handle) == Event(op, prim, "", handle, "", FALSE, FALSE)

\* the calls into the GPU context and the file system that can fail
FallibleOps == {"mesh_build", "load_image", "build_texture", "create_buffer", "upload_buffer"}
\* the calls that build or upload a GPU resource
GpuOps == {"mesh_build", "build_texture", "create_buffer", "upload_buffer"}

NoFail == [op |-> "", prim |-> 0, slot |-> ""]
FailPoint(e) == [op |-> e.op, prim |-> e.prim, slot |-> e.slot]
Fails(fail, op, prim, slot) == fail = [op |-> op, prim |-> prim, slot |-> slot]

(* ---------------------------- Texture Loader --------------------------- *)

ShaderReadState ==
  [queue |-> "queue", stage |-> "FRAGMENT_SHADER", access |-> "SHADER_READ",
   layout |-> "ShaderReadOnlyOptimal"]

\* load_gltf_texture: the texture builder for an image source, or an error
load_gltf_texture(texture, srgb, generate_mips, io_fails) ==
  IF texture.source = "View" THEN Panic("not implemented")
  ELSE IF io_fails THEN Err("io")
  ELSE Ok([image |-> texture.uri,
           repr |-> IF srgb THEN "Srgb" ELSE "Unorm",
           generate_mips |-> generate_mips])

\* TextureBuilder::build(state, factory)
BuildTexture(builder, state) ==
  [image |-> builder.image, repr |-> builder.repr,
   generate_mips |-> builder.generate_mips, state |-> state]

PlaceholderBuilder ==
  [image |-> "1x1 black", repr |-> "Srgb", generate_mips |-> FALSE]

(* --------------------------- Material Builder -------------------------- *)

\* the state of a run of the builder: kind is "Run" while no step failed
Abort(bs, r, es) ==
  [kind |-> r.kind, msg |-> r.msg, events |-> bs.events \o es, data |-> bs.data]

RequiredTexture_Defaulted(bs, material, t, field, a) ==
  IF bs.kind # "Run" THEN bs
  ELSE
    LET src == IF IsNone(material[t]) THEN UriImage("default") ELSE Unwrap(material[t])
        ld == Event("load_image", a.prim, t, a.mat_idx, src.uri, SrgbFlag[t], a.generate_mips)
        bd == Event("build_texture", a.prim, t, a.mat_idx, src.uri, SrgbFlag[t], a.generate_mips)
        r == load_gltf_texture(src, SrgbFlag[t], a.generate_mips,
                               Fails(a.fail, "load_image", a.prim, t))
    IN IF r.kind # "Ok" THEN Abort(bs, r, <<ld>>)
       ELSE IF Fails(a.fail, "build_texture", a.prim, t) THEN Abort(bs, Err("gpu"), <<ld, bd>>)
       ELSE [bs EXCEPT !.events = @ \o <<ld, bd>>,
                       !.data = [x \in DOMAIN @ \cup {field} |->
                                   IF x = field THEN BuildTexture(Unwrap(r.value), ShaderReadState)
                                   ELSE @[x]]]

\* lines 192-234: one required texture, loaded and built
RequiredTexture(bs, material, t, field, a) ==
  IF bs.kind # "Run" THEN bs
  ELSE IF IsNone(material[t]) THEN Abort(bs, Err(TextureError[t]), <<>>)
  ELSE
    LET ld == Event("load_image", a.prim, t, a.mat_idx, Unwrap(material[t]).uri,
                    SrgbFlag[t], a.generate_mips)
        bd == Event("build_texture", a.prim, t, a.mat_idx, Unwrap(material[t]).uri,
                    SrgbFlag[t], a.generate_mips)
        r == load_gltf_texture(Unwrap(material[t]), SrgbFlag[t], a.generate_mips,
                               Fails(a.fail, "load_image", a.prim, t))
    IN IF r.kind # "Ok" THEN Abort(bs, r, <<ld>>)
       ELSE IF Fails(a.fail, "build_texture", a.prim, t) THEN Abort(bs, Err("gpu"), <<ld, bd>>)
       ELSE [bs EXCEPT !.events = @ \o <<ld, bd>>,
                       !.data = [x \in DOMAIN @ \cup {field} |->
                                   IF x = field THEN BuildTexture(Unwrap(r.value), ShaderReadState)
                                   ELSE @[x]]]

EmissiveTexture_AlwaysPlaceholder(bs, material, a) ==
  IF bs.kind # "Run" THEN bs
  ELSE
    LET bd == Event("build_texture", a.prim, "emissive", a.mat_idx, "1x1 black",
                    TRUE, FALSE)
    IN IF Fails(a.fail, "build_texture", a.prim, "emissive") THEN Abort(bs, Err("gpu"), <<bd>>)
       ELSE [bs EXCEPT !.events = @ \o <<bd>>,
                       !.data = [x \in DOMAIN @ \cup {"emissive"} |->
                                   IF x = "emissive" THEN BuildTexture(PlaceholderBuilder, ShaderReadState)
                                   ELSE @[x]]]

\* lines 236-247: the emissive texture, loaded or replaced by the placeholder
EmissiveTexture(bs, material, a) ==
  IF bs.kind # "Run" THEN bs
  ELSE IF IsSome(material["emissive"]) THEN
    RequiredTexture(bs, material, "emissive", "emissive", a)
  ELSE
    LET bd == Event("build_texture", a.prim, "emissive", a.mat_idx, "1x1 black",
                    TRUE, FALSE)
    IN IF Fails(a.fail, "build_texture", a.prim, "emissive") THEN Abort(bs, Err("gpu"), <<bd>>)
       ELSE [bs EXCEPT !.events = @ \o <<bd>>,
                       !.data = [x \in DOMAIN @ \cup {"emissive"} |->
                                   IF x = "emissive" THEN BuildTexture(PlaceholderBuilder, ShaderReadState)
                                   ELSE @[x]]]

\* lines 249-270: the emissive factor buffer, created then uploaded
EmissiveFactorBuffer(bs, a) ==
  IF bs.kind # "Run" THEN bs
  ELSE
    LET cr == Step("create_buffer", a.prim, a.mat_idx)
        up == Step("upload_buffer", a.prim, a.mat_idx)
    IN IF Fails(a.fail, "create_buffer", a.prim, "") THEN Abort(bs, Err("gpu"), <<cr>>)
       ELSE IF Fails(a.fail, "upload_buffer", a.prim, "") THEN Abort(bs, Err("gpu"), <<cr, up>>)
       ELSE [bs EXCEPT !.events = @ \o <<cr, up>>,
                       !.data = [x \in DOMAIN @ \cup {"emissive_factor_buffer"} |->
                                   IF x = "emissive_factor_buffer" THEN "uploaded" ELSE @[x]]]

\* lines 177-270: the Material Builder for one source material
MaterialBuilder(material, name, a) ==
  LET b0 == [kind |-> "Run", msg |-> "",
             events |-> <<Step("builder_start", a.prim, a.mat_idx)>>,
             data |-> [x \in {"factors"} |-> name]]
      b1 == RequiredTexture(b0, material, "base_color", "albedo", a)
      b2 == RequiredTexture(b1, material, "metallic_roughness", "metallic_roughness", a)
      b3 == RequiredTexture(b2, material, "normal", "normal", a)
      b4 == RequiredTexture(b3, material, "occlusion", "ao", a)
      b5 == EmissiveTexture(b4, material, a)
  IN EmissiveFactorBuffer(b5, a)

(* ------------------------------ load_gltf_mesh ------------------------- *)

\* the reader of line 133 yields a stream when the primitive has the accessor
\* and GltfBuffers::buffer finds the accessor's buffer
HasStream(prim, s, bufs) ==
  /\ IsSome(prim.accessors[s])
  /\ IsSome(buffer(bufs, Unwrap(prim.accessors[s])))

MissingStreams_None(prim, bufs) == {}

\* the positions in StreamOrder of the streams the reader does not yield
MissingStreams(prim, bufs) ==
  {i \in 1..Len(StreamOrder) : ~HasStream(prim, StreamOrder[i], bufs)}

\* the first required stream, in the order of lines 135-153, that is missing
FirstMissing(prim, bufs) ==
  StreamOrder[CHOOSE i \in MissingStreams(prim, bufs) :
                 \A j \in MissingStreams(prim, bufs) : i <= j]

Stop(st, r, es) ==
  [st EXCEPT !.kind = r.kind, !.msg = r.msg, !.events = @ \o es]

StoreMaterial_Skipped(st, b, p, mat_idx) ==
  IF b.kind # "Run" THEN Stop(st, b, b.events)
  ELSE [st EXCEPT !.events = @ \o b.events \o <<Step("material_write", p, mat_idx)>>]

\* lines 272-280: the builder's result goes into the material slot
StoreMaterial(st, b, p, mat_idx) ==
  IF b.kind # "Run" THEN Stop(st, b, b.events)
  ELSE [st EXCEPT !.events = @ \o b.events \o <<Step("material_write", p, mat_idx)>>,
                  !.material_storage[mat_idx] = Some(b.data)]

MaterialEmpty_Always(slots, mat_idx) == TRUE

\* line 176: the builder runs only for an empty material slot
MaterialEmpty(slots, mat_idx) == IsNone(slots[mat_idx])

\* lines 176-281: build the material unless its slot is populated
MaterialDedup(st, doc, prim, p, mat_idx, c) ==
  IF ~MaterialEmpty(st.material_storage, mat_idx) THEN st
  ELSE StoreMaterial(st,
                     MaterialBuilder(doc.materials[Unwrap(prim.material) + 1],
                                     <<c.doc, Unwrap(prim.material)>>,
                                     [prim |-> p, mat_idx |-> mat_idx,
                                      generate_mips |-> c.generate_mips,
                                      fail |-> c.fail]),
                     p, mat_idx)

PushPrimitive_OffByOne(st, p, mesh_idx, mat_idx, c) ==
  IF st.kind # "Run" THEN st
  ELSE
    LET pushed == Append(st.primitive_storage,
                         Some([mesh_data |-> <<c.doc, c.mesh, p>>,
                               mesh_handle |-> mesh_idx,
                               mat |-> mat_idx]))
    IN [st EXCEPT !.primitive_storage = pushed,
                  !.primitives = Append(@, Len(pushed)),
                  !.events = Append(@, Step("primitive_push", p, Len(pushed)))]

PushPrimitive_SourceIndex(st, p, mesh_idx, mat_idx, c) ==
  IF st.kind # "Run" THEN st
  ELSE
    LET pushed == Append(st.primitive_storage,
                         Some([mesh_data |-> <<c.doc, c.mesh, p>>,
                               mesh_handle |-> c.mesh,
                               mat |-> mat_idx]))
    IN [st EXCEPT !.primitive_storage = pushed,
                  !.primitives = Append(@, Len(pushed) - 1),
                  !.events = Append(@, Step("primitive_push", p, Len(pushed) - 1))]

\* lines 283-289: append the primitive and record its handle
PushPrimitive(st, p, mesh_idx, mat_idx, c) ==
  IF st.kind # "Run" THEN st
  ELSE
    LET pushed == Append(st.primitive_storage,
                         Some([mesh_data |-> <<c.doc, c.mesh, p>>,
                               mesh_handle |-> mesh_idx,
                               mat |-> mat_idx]))
    IN [st EXCEPT !.primitive_storage = pushed,
                  !.primitives = Append(@, Len(pushed) - 1),
                  !.events = Append(@, Step("primitive_push", p, Len(pushed) - 1))]

MaterialIndex_NoBase(base_material_index, index) == index

\* lines 171-174: the handle of the material
MaterialIndex(base_material_index, index) == base_material_index + index

LoadPrimitive_IndexFirst(st, doc, prim, p, mesh_idx, c, bufs) ==
  LET rd == Step("read_streams", p, -1)
      mb == Step("mesh_build", p, -1)
      mi == Step("material_index", p, -1)
  IN
  IF MissingStreams(prim, bufs) # {} THEN
    Stop(st, Err(StreamError[FirstMissing(prim, bufs)]), <<rd>>)
  ELSE IF IsNone(prim.material) THEN
    Stop(st, Err("Default material unimplemented"), <<rd, mi>>)
  ELSE IF Fails(c.fail, "mesh_build", p, "") THEN Stop(st, Err("gpu"), <<rd, mi, mb>>)
  ELSE
    LET mat_idx == MaterialIndex(c.base_material_index, Unwrap(prim.material))
        s1 == [st EXCEPT !.events = @ \o <<rd, mi, mb>>]
    IN IF mat_idx \notin DOMAIN st.material_storage THEN
         Stop(s1, Panic("index out of bounds"), <<>>)
       ELSE PushPrimitive(MaterialDedup(s1, doc, prim, p, mat_idx, c),
                          p, mesh_idx, mat_idx, c)

\* lines 133-289: the body of the loop for the primitive at position p
LoadPrimitive(st, doc, prim, p, mesh_idx, c, bufs) ==
  LET rd == Step("read_streams", p, -1)
      mb == Step("mesh_build", p, -1)
      mi == Step("material_index", p, -1)
  IN
  IF MissingStreams(prim, bufs) # {} THEN
    Stop(st, Err(StreamError[FirstMissing(prim, bufs)]), <<rd>>)
  ELSE IF Fails(c.fail, "mesh_build", p, "") THEN Stop(st, Err("gpu"), <<rd, mb>>)
  ELSE IF IsNone(prim.material) THEN
    Stop(st, Err("Default material unimplemented"), <<rd, mb, mi>>)
  ELSE
    LET mat_idx == MaterialIndex(c.base_material_index, Unwrap(prim.material))
        s1 == [st EXCEPT !.events = @ \o <<rd, mb, mi>>]
    IN IF mat_idx \notin DOMAIN st.material_storage THEN
         Stop(s1, Panic("index out of bounds"), <<>>)
       ELSE PushPrimitive(MaterialDedup(s1, doc, prim, p, mat_idx, c),
                          p, mesh_idx, mat_idx, c)

RECURSIVE LoadPrimitives(_, _, _, _, _, _)
LoadPrimitives(st, doc, p, mesh_idx, c, bufs) ==
  IF st.kind # "Run" \/ p > Len(doc.meshes[c.mesh + 1]) THEN st
  ELSE LoadPrimitives(LoadPrimitive(st, doc, doc.meshes[c.mesh + 1][p], p, mesh_idx, c, bufs),
                      doc, p + 1, mesh_idx, c, bufs)

MeshIndex_NoBase(base_mesh_index, index) == index

\* line 126: the handle of the mesh
MeshIndex(base_mesh_index, index) == base_mesh_index + index

MeshDedup_Never(slots, mesh_idx) == FALSE

\* lines 127-128: the dedup check on the mesh slot
MeshDedup(slots, mesh_idx) == IsSome(slots[mesh_idx])

\* what a call leaves behind: its outcome, its steps and the arenas
Outcome(st, kind, value) ==
  [kind |-> kind, value |-> value, msg |-> st.msg, events |-> st.events,
   material_storage |-> st.material_storage,
   primitive_storage |-> st.primitive_storage,
   mesh_storage |-> st.mesh_storage]

PopulateMesh_Always(st, mesh_idx, max_instances) ==
  Outcome([st EXCEPT !.mesh_storage[mesh_idx] =
                       Some([primitives |-> st.primitives,
                             max_instances |-> max_instances])],
          IF st.kind = "Run" THEN "Ok" ELSE st.kind,
          IF st.kind = "Run" THEN Some(mesh_idx) ELSE None)

\* lines 292-297: after the loop, populate the mesh slot and return the
\* handle; an error or a panic inside the loop has left the function before
PopulateMesh(st, mesh_idx, max_instances) ==
  IF st.kind # "Run" THEN Outcome(st, st.kind, None)
  ELSE Outcome([st EXCEPT !.mesh_storage[mesh_idx] =
                            Some([primitives |-> st.primitives,
                                  max_instances |-> max_instances]),
                          !.events = Append(@, Step("mesh_write", 0, mesh_idx))],
               "Ok", Some(mesh_idx))

\* load_gltf_mesh on the buffer set bufs and the arenas (ms, ps, xs) for the
\* call c; the result holds the arenas after the call, the outcome and the
\* steps performed
load_gltf_mesh(docs, c, bufs, ms, ps, xs) ==
  LET doc == docs[c.doc]
      mesh_idx == MeshIndex(c.base_mesh_index, c.mesh)
      st0 == [kind |-> "Run", msg |-> "", events |-> <<>>, primitives |-> <<>>,
              material_storage |-> ms, primitive_storage |-> ps, mesh_storage |-> xs]
  IN
  IF mesh_idx \notin DOMAIN xs THEN
    Outcome([st0 EXCEPT !.msg = "index out of bounds"], "Panic", None)
  ELSE IF MeshDedup(xs, mesh_idx) THEN Outcome(st0, "Ok", Some(mesh_idx))
  ELSE PopulateMesh(LoadPrimitives(st0, doc, 1, mesh_idx, c, bufs),
                    mesh_idx, c.max_instances)

(* ------------------------------- the system ---------------------------- *)

NoFiles == [f \in FileNames |-> None]

\* a caller that is between calls of load_gltf_mesh, and the two callers of
\* the interleaved loads
ThreadIdle ==
  [pc |-> "idle", mesh |-> 0, max_instances |-> 1, generate_mips |-> FALSE,
   p |-> 0, primitives |-> <<>>, mat_idx |-> 0]
NoThreads == <<ThreadIdle, ThreadIdle>>

\* how many times each material slot and each mesh slot has been written
NoWrites == [material |-> <<>>, mesh |-> <<>>]

\* the base offsets <<base_mesh_index, base_material_index>> the caller has
\* planned for each document; NoPartition when it plans none
NoPartition == <<<<0, 0>>, <<0, 0>>>>

Call(fn, d, m, K, KM, n, mips, fs, fail) ==
  [fn |-> fn, doc |-> d, mesh |-> m, base_mesh_index |-> K,
   base_material_index |-> KM, max_instances |-> n, generate_mips |-> mips,
   fs |-> fs, fail |-> fail]

Returned(c, kind, value, msg, events) ==
  [call |-> c, kind |-> kind, value |-> value, msg |-> msg, events |-> events]

Count(events, op, h) ==
  Cardinality({i \in 1..Len(events) : events[i].op = op /\ events[i].handle = h})

Idle == Returned(Call("", 1, 0, 0, 0, 1, FALSE, NoFiles, NoFail), "", None, "", <<>>)

Init ==
  /\ \E v \in Variants : gltf = Documents(v) /\ faulty = v[6]
  /\ buffers = None
  /\ material_storage = [h \in 0..(MaterialSlots - 1) |-> None]
  /\ primitive_storage = <<>>
  /\ mesh_storage = [h \in 0..(MeshSlots - 1) |-> None]
  /\ last = Idle
  /\ mesh_origin = [h \in 0..(MeshSlots - 1) |-> None]
  /\ builder_ran = {}
  /\ failures = 0
  /\ partition = NoPartition
  /\ threads = NoThreads
  /\ writes = NoWrites

\* GltfBuffers::load_from_gltf on document d with the files fs on disk
LoadBuffers(d, fs) ==
  /\ last = Idle
  /\ LET r == load_from_gltf(gltf[d], fs) IN
       /\ buffers' = IF r.kind = "Ok" THEN Some(Unwrap(r.value)) ELSE buffers
       /\ last' = Returned(Call("load_from_gltf", d, 0, 0, 0, 1, FALSE, fs, NoFail),
                           r.kind, r.value, r.msg, <<>>)
  /\ UNCHANGED <<gltf, faulty, material_storage, primitive_storage, mesh_storage,
                 mesh_origin, builder_ran, failures, partition,
                 threads, writes>>

\* the calls of a run that the environment can make fail
FailPoints(c) ==
  LET r == load_gltf_mesh(gltf, c, Unwrap(buffers), material_storage,
                          primitive_storage, mesh_storage)
  IN {NoFail} \cup {FailPoint(r.events[i]) :
                      i \in {j \in 1..Len(r.events) :
                                /\ r.events[j].op \in FallibleOps
                                /\ r.events[j].slot \in {"", faulty}}}

\* load_gltf_mesh(mesh m of document d, n, mips, .., K, KM, arenas, ..)
LoadMesh(d, m, K, KM, n, mips) ==
  /\ last = Idle
  /\ IsSome(buffers)
  /\ \E fail \in FailPoints(Call("load_gltf_mesh", d, m, K, KM, n, mips, NoFiles, NoFail)) :
     \E c \in {Call("load_gltf_mesh", d, m, K, KM, n, mips, NoFiles, fail)} :
     \E r \in {load_gltf_mesh(gltf, c, Unwrap(buffers),
                              material_storage, primitive_storage, mesh_storage)} :
          /\ Len(r.primitive_storage) <= MaxPrimitives
          /\ r.kind = "Ok" \/ failures < MaxFailures
          /\ material_storage' = r.material_storage
          /\ primitive_storage' = r.primitive_storage
          /\ mesh_storage' = r.mesh_storage
          /\ last' = Returned(c, r.kind, r.value, r.msg, r.events)
          /\ mesh_origin' = [h \in DOMAIN mesh_origin |->
                                IF Count(r.events, "mesh_write", h) > 0
                                THEN Some([doc |-> d, mesh |-> m, base_mesh_index |-> K,
                                           handle |-> Unwrap(r.value)])
                                ELSE mesh_origin[h]]
          /\ builder_ran' = builder_ran \cup
                              {h \in DOMAIN material_storage :
                                 Count(r.events, "builder_start", h) > 0}
          /\ failures' = IF r.kind = "Ok" THEN failures ELSE failures + 1
  /\ UNCHANGED <<gltf, faulty, buffers, partition, threads, writes>>

\* the caller takes the value a call returned and goes on; a panic is final
Continue ==
  /\ last.kind \in {"Ok", "Err"}
  /\ last' = Idle
  /\ UNCHANGED <<gltf, faulty, buffers, material_storage, primitive_storage,
                 mesh_storage, mesh_origin, builder_ran, failures, partition,
                 threads, writes>>

\* the (max_instances, generate_mips) pairs and the base offsets of the calls
LoadOptions == {<<1, FALSE>>, <<MaxInstances, TRUE>>}
Bases == {<<K, KM>> \in (0..MaxBase) \X (0..MaxBase) : K + KM <= MaxBase}

Next ==
  \/ \E d \in 1..2, fs \in FileSystems : LoadBuffers(d, fs)
  \/ \E d \in 1..2, b \in Bases, o \in LoadOptions :
       \E m \in 0..(Len(gltf[d].meshes) - 1) : LoadMesh(d, m, b[1], b[2], o[1], o[2])
  \/ Continue

Spec == Init /\ [][Next]_vars

(* ------------------------ lookups in the buffer set -------------------- *)

MaxViewLen == 3

\* files of one to MaxViewLen bytes
LongFiles == [FileNames -> {Some(SubSeq(Bytes, 1, n)) : n \in 1..MaxViewLen}]

\* the view descriptors of a document: a buffer index, an offset, a length
Views == [buffer : 0..2, offset : 0..MaxViewLen, length : 0..MaxViewLen]

Lookup(fn, index, v) == [fn |-> fn, index |-> index, view |-> v]

\* GltfBuffers::buffer on the loaded set
BufferLookup(index) ==
  /\ last = Idle
  /\ IsSome(buffers)
  /\ last' = Returned(Lookup("buffer", index, [buffer |-> index, offset |-> 0, length |-> 0]),
                      "Ok", Some(buffer(Unwrap(buffers), index)), "", <<>>)
  /\ UNCHANGED <<gltf, faulty, buffers, material_storage, primitive_storage,
                 mesh_storage, mesh_origin, builder_ran, failures, partition,
                 threads, writes>>

\* GltfBuffers::view on the loaded set
ViewLookup(v) ==
  /\ last = Idle
  /\ IsSome(buffers)
  /\ LET r == view(Unwrap(buffers), v) IN
       last' = Returned(Lookup("view", v.buffer, v), r.kind, r.value, r.msg, <<>>)
  /\ UNCHANGED <<gltf, faulty, buffers, material_storage, primitive_storage,
                 mesh_storage, mesh_origin, builder_ran, failures, partition,
                 threads, writes>>

NextLookups ==
  \/ \E d \in 1..2, fs \in FileSystems \cup LongFiles : LoadBuffers(d, fs)
  \/ \E index \in 0..2 : BufferLookup(index)
  \/ \E v \in Views : ViewLookup(v)
  \/ Continue

SpecLookups == Init /\ [][NextLookups]_vars

(* ------------------- two documents on disjoint handle ranges ----------- *)

\* the handles base + source index of the meshes and materials of a document
MeshRange(doc, K) == K..(K + Len(doc.meshes) - 1)
MaterialRange(doc, KM) == KM..(KM + Len(doc.materials) - 1)

Batch == <<DocumentA, DocumentC>>
BatchMeshes == Len(Batch[1].meshes) + Len(Batch[2].meshes)
BatchMaterials == Len(Batch[1].materials) + Len(Batch[2].materials)

\* the plans that give the two documents disjoint mesh ranges and disjoint
\* material ranges inside the arenas
Partitions ==
  {pt \in [1..2 -> (0..BatchMeshes) \X (0..BatchMaterials)] :
     /\ MeshRange(Batch[1], pt[1][1]) \cap MeshRange(Batch[2], pt[2][1]) = {}
     /\ MaterialRange(Batch[1], pt[1][2]) \cap MaterialRange(Batch[2], pt[2][2]) = {}
     /\ \A d \in 1..2 :
          /\ MeshRange(Batch[d], pt[d][1]) \subseteq 0..(BatchMeshes - 1)
          /\ MaterialRange(Batch[d], pt[d][2]) \subseteq 0..(BatchMaterials - 1)}

InitPartitioned ==
  /\ gltf = Batch
  /\ faulty = "normal"
  /\ partition \in Partitions
  /\ buffers = Some(Unwrap(load_from_gltf(Batch[1], [f \in FileNames |-> Some(SubSeq(Bytes, 1, 1))]).value))
  /\ material_storage = [h \in 0..(BatchMaterials - 1) |-> None]
  /\ primitive_storage = <<>>
  /\ mesh_storage = [h \in 0..(BatchMeshes - 1) |-> None]
  /\ last = Idle
  /\ mesh_origin = [h \in 0..(BatchMeshes - 1) |-> None]
  /\ builder_ran = {}
  /\ failures = 0
  /\ threads = NoThreads
  /\ writes = NoWrites

\* a load of mesh m of document d with the offsets planned for d
LoadPartitioned(d, m, n, mips) ==
  LoadMesh(d, m, partition[d][1], partition[d][2], n, mips)

NextPartitioned ==
  \/ \E d \in 1..2, o \in LoadOptions :
       \E m \in 0..(Len(gltf[d].meshes) - 1) : LoadPartitioned(d, m, o[1], o[2])
  \/ Continue

SpecPartitioned == InitPartitioned /\ [][NextPartitioned]_vars

(* ------- two calls interleaved at the arena reads and writes ----------- *)

\* caller t loads the meshes of document t at the offsets planned for it;
\* a step of a call runs up to and including its next read or write of an
\* arena

InitInterleaved ==
  /\ gltf = Batch
  /\ faulty = "normal"
  /\ partition \in Partitions
  /\ buffers = Some(Unwrap(load_from_gltf(Batch[1], [f \in FileNames |-> Some(SubSeq(Bytes, 1, 1))]).value))
  /\ material_storage = [h \in 0..(BatchMaterials - 1) |-> None]
  /\ primitive_storage = <<>>
  /\ mesh_storage = [h \in 0..(BatchMeshes - 1) |-> None]
  /\ last = Idle
  /\ mesh_origin = [h \in 0..(BatchMeshes - 1) |-> None]
  /\ builder_ran = {}
  /\ failures = 0
  /\ threads = NoThreads
  /\ writes = [material |-> [h \in 0..(BatchMaterials - 1) |-> 0],
               mesh |-> [h \in 0..(BatchMeshes - 1) |-> 0]]

ThreadMeshIndex(t) == MeshIndex(partition[t][1], threads[t].mesh)
ThreadMesh(t) == gltf[t].meshes[threads[t].mesh + 1]

\* the call leaves with an error: lines 137-174 and the ? of the builder
ThreadFails(t) ==
  /\ failures < MaxFailures
  /\ failures' = failures + 1
  /\ threads' = [threads EXCEPT ![t] = ThreadIdle]

\* lines 126-130: the call starts and reads its mesh slot
Begin(t, m, n, mips) ==
  /\ threads[t].pc = "idle"
  /\ MeshIndex(partition[t][1], m) \in DOMAIN mesh_storage
  /\ threads' = [threads EXCEPT ![t] =
                   IF MeshDedup(mesh_storage, MeshIndex(partition[t][1], m)) THEN ThreadIdle
                   ELSE [pc |-> "loop", mesh |-> m, max_instances |-> n,
                         generate_mips |-> mips, p |-> 1, primitives |-> <<>>,
                         mat_idx |-> 0]]
  /\ UNCHANGED <<gltf, faulty, buffers, material_storage, primitive_storage,
                 mesh_storage, last, mesh_origin, builder_ran, failures,
                 partition, writes>>

\* lines 292-297: past the last primitive, the write of the mesh slot
WriteMesh(t) ==
  /\ threads[t].pc = "loop"
  /\ threads[t].p > Len(ThreadMesh(t))
  /\ mesh_storage' = [mesh_storage EXCEPT ![ThreadMeshIndex(t)] =
                         Some([primitives |-> threads[t].primitives,
                               max_instances |-> threads[t].max_instances])]
  /\ writes' = [writes EXCEPT !.mesh[ThreadMeshIndex(t)] = @ + 1]
  /\ threads' = [threads EXCEPT ![t] = ThreadIdle]
  /\ UNCHANGED <<gltf, faulty, buffers, material_storage, primitive_storage,
                 last, mesh_origin, builder_ran, failures, partition>>

\* lines 133-176: the streams, the mesh, the material index and the read of
\* the material slot
ReadMaterial(t) ==
  /\ threads[t].pc = "loop"
  /\ threads[t].p <= Len(ThreadMesh(t))
  /\ LET prim == ThreadMesh(t)[threads[t].p] IN
       IF MissingStreams(prim, Unwrap(buffers)) # {} \/ IsNone(prim.material)
       THEN ThreadFails(t)
       ELSE LET mat_idx == MaterialIndex(partition[t][2], Unwrap(prim.material)) IN
         /\ mat_idx \in DOMAIN material_storage
         /\ threads' = [threads EXCEPT ![t].mat_idx = mat_idx,
                                       ![t].pc = IF MaterialEmpty(material_storage, mat_idx)
                                                 THEN "build" ELSE "push"]
         /\ failures' = failures
  /\ UNCHANGED <<gltf, faulty, buffers, material_storage, primitive_storage,
                 mesh_storage, last, mesh_origin, builder_ran, partition, writes>>

\* lines 177-280: the Material Builder and the write of the material slot
BuildMaterial(t, fail) ==
  /\ threads[t].pc = "build"
  /\ LET prim == ThreadMesh(t)[threads[t].p]
         b == MaterialBuilder(gltf[t].materials[Unwrap(prim.material) + 1],
                              <<t, Unwrap(prim.material)>>,
                              [prim |-> threads[t].p, mat_idx |-> threads[t].mat_idx,
                               generate_mips |-> threads[t].generate_mips,
                               fail |-> fail])
     IN IF b.kind # "Run"
        THEN /\ ThreadFails(t)
             /\ UNCHANGED <<material_storage, writes>>
        ELSE /\ material_storage' = [material_storage EXCEPT ![threads[t].mat_idx] = Some(b.data)]
             /\ writes' = [writes EXCEPT !.material[threads[t].mat_idx] = @ + 1]
             /\ threads' = [threads EXCEPT ![t].pc = "push"]
             /\ failures' = failures
  /\ builder_ran' = builder_ran \cup {threads[t].mat_idx}
  /\ UNCHANGED <<gltf, faulty, buffers, primitive_storage, mesh_storage, last,
                 mesh_origin, partition>>

\* lines 283-287: the push on the primitive arena
Push(t) ==
  /\ threads[t].pc = "push"
  /\ Len(primitive_storage) < MaxPrimitives
  /\ primitive_storage' = Append(primitive_storage,
                                 Some([mesh_data |-> <<t, threads[t].mesh, threads[t].p>>,
                                       mesh_handle |-> ThreadMeshIndex(t),
                                       mat |-> threads[t].mat_idx]))
  /\ threads' = [threads EXCEPT ![t].pc = "len"]
  /\ UNCHANGED <<gltf, faulty, buffers, material_storage, mesh_storage, last,
                 mesh_origin, builder_ran, failures, partition, writes>>

\* line 289: the read of the length of the primitive arena
ReadLen(t) ==
  /\ threads[t].pc = "len"
  /\ threads' = [threads EXCEPT ![t].primitives = Append(@, Len(primitive_storage) - 1),
                                ![t].p = @ + 1,
                                ![t].pc = "loop"]
  /\ UNCHANGED <<gltf, faulty, buffers, material_storage, primitive_storage,
                 mesh_storage, last, mesh_origin, builder_ran, failures,
                 partition, writes>>

BuilderFailPoints(t) ==
  {NoFail, [op |-> "build_texture", prim |-> threads[t].p, slot |-> faulty]}

\* the (max_instances, generate_mips) each caller passes
ThreadOptions == <<<<1, FALSE>>, <<MaxInstances, TRUE>>>>

NextInterleaved ==
  \E t \in 1..2 :
    \/ \E m \in 0..(Len(gltf[t].meshes) - 1) :
         Begin(t, m, ThreadOptions[t][1], ThreadOptions[t][2])
    \/ WriteMesh(t)
    \/ ReadMaterial(t)
    \/ \E fail \in BuilderFailPoints(t) : BuildMaterial(t, fail)
    \/ Push(t)
    \/ ReadLen(t)

SpecInterleaved == InitInterleaved /\ [][NextInterleaved]_vars

(* ------------------------------ properties ----------------------------- *)

\* a step that is a call of load_gltf_mesh: last' holds the call and what it
\* returned, the unprimed arenas are those before the call
MeshCallStep == last = Idle /\ last'.call.fn = "load_gltf_mesh"
MeshCalled == last.call.fn = "load_gltf_mesh"

Target(c) == c.base_mesh_index + c.mesh
SourceMesh(c) == gltf[c.doc].meshes[c.mesh + 1]

SameRef(o, c) ==
  o.doc = c.doc /\ o.mesh = c.mesh /\ o.base_mesh_index = c.base_mesh_index

GpuBuilds(events) ==
  Cardinality({i \in 1..Len(events) : events[i].op \in GpuOps})

IsPrefix(s, t) == Len(s) <= Len(t) /\ SubSeq(t, 1, Len(s)) = s

\* C1: once a load of a mesh reference with a base_mesh_index has populated
\* its slot, every later load of the same reference with the same base returns
\* the handle the first load returned and performs no step at all: no parsing
\* of streams, no mesh, texture or buffer build
C1_Idempotence ==
  [][MeshCallStep =>
       \A h \in DOMAIN mesh_origin :
         (IsSome(mesh_origin[h]) /\ SameRef(Unwrap(mesh_origin[h]), last'.call)) =>
           /\ last'.kind = "Ok"
           /\ last'.value = Some(Unwrap(mesh_origin[h]).handle)
           /\ GpuBuilds(last'.events) = 0
           /\ Count(last'.events, "read_streams", -1) = 0
           /\ last'.events = <<>>]_vars

C1_Witness ==
  /\ MeshCalled /\ last.kind = "Ok" /\ last.events = <<>>
  /\ \E h \in DOMAIN mesh_origin :
       IsSome(mesh_origin[h]) /\ SameRef(Unwrap(mesh_origin[h]), last.call)

\* C2 as stated: the Material Builder is run at most once for any material
\* handle over any sequence of calls
C2_BuilderRunsAtMostOnce ==
  [][MeshCallStep =>
       \A h \in DOMAIN material_storage :
         /\ Count(last'.events, "builder_start", h) <= 1
         /\ h \in builder_ran => Count(last'.events, "builder_start", h) = 0]_vars

\* C2 amended: a material slot is populated at most once over any sequence of
\* calls and the builder is never started for a populated slot (it is started
\* again after a run that failed); a successful load of a mesh with two
\* primitives of the same material index leaves that one slot populated and
\* both primitives hold its handle
C2_MaterialBuiltAtMostOnce ==
  [][MeshCallStep =>
       /\ \A h \in DOMAIN material_storage :
            /\ Count(last'.events, "material_write", h) <= 1
            /\ Count(last'.events, "builder_start", h) <= 1
            /\ IsSome(material_storage[h]) =>
                 /\ Count(last'.events, "material_write", h) = 0
                 /\ Count(last'.events, "builder_start", h) = 0
       /\ (last'.kind = "Ok" /\ last'.events # <<>>) =>
            \A p, q \in 1..Len(SourceMesh(last'.call)) :
              LET pm == SourceMesh(last'.call)[p].material
                  qm == SourceMesh(last'.call)[q].material
                  hs == Unwrap(mesh_storage'[Target(last'.call)]).primitives
                  mh == last'.call.base_material_index + Unwrap(pm)
              IN (p # q /\ pm = qm) =>
                   /\ IsSome(material_storage'[mh])
                   /\ Unwrap(primitive_storage'[hs[p] + 1]).mat = mh
                   /\ Unwrap(primitive_storage'[hs[q] + 1]).mat = mh
                   /\ Count(last'.events, "material_write", mh)
                        + (IF IsSome(material_storage[mh]) THEN 1 ELSE 0) = 1]_vars

C2_Witness ==
  /\ MeshCalled /\ last.kind = "Ok"
  /\ \E p, q \in 1..Len(SourceMesh(last.call)) :
       p # q /\ SourceMesh(last.call)[p].material = SourceMesh(last.call)[q].material
  /\ \E h \in DOMAIN material_storage : Count(last.events, "material_write", h) = 1
  /\ Cardinality({i \in 1..Len(last.events) : last.events[i].op = "primitive_push"}) = 2

\* C3: a populated mesh slot and a populated material slot keep their content
\* in every step, whatever the later calls and their max_instances and
\* generate_mips
C3_SlotMonotonicity ==
  [][/\ \A h \in DOMAIN mesh_storage :
          IsSome(mesh_storage[h]) => mesh_storage'[h] = mesh_storage[h]
     /\ \A h \in DOMAIN material_storage :
          IsSome(material_storage[h]) => material_storage'[h] = material_storage[h]]_vars

\* a call aimed at a populated mesh slot with another max_instances, whose
\* primitives use a populated material built with another generate_mips
C3_Witness ==
  /\ MeshCalled
  /\ Target(last.call) \in DOMAIN mesh_storage
  /\ IsSome(mesh_storage[Target(last.call)])
  /\ Unwrap(mesh_storage[Target(last.call)]).max_instances # last.call.max_instances
  /\ \E h \in DOMAIN material_storage :
       /\ IsSome(material_storage[h])
       /\ Unwrap(material_storage[h]).albedo.generate_mips # last.call.generate_mips

\* C4: a call with base_mesh_index K for the mesh of source index i that
\* returns a handle returns K + i, on the first load and on the dedup path,
\* and the only mesh slot a call populates is the slot K + i
C4_HandleOffset ==
  [][MeshCallStep =>
       /\ last'.kind = "Ok" =>
            /\ last'.value = Some(last'.call.base_mesh_index + last'.call.mesh)
            /\ IsSome(mesh_storage'[last'.call.base_mesh_index + last'.call.mesh])
       /\ \A h \in DOMAIN mesh_storage :
            (IsNone(mesh_storage[h]) /\ IsSome(mesh_storage'[h])) =>
               h = last'.call.base_mesh_index + last'.call.mesh]_vars

C4_Witness ==
  /\ MeshCalled /\ last.kind = "Ok" /\ last.events # <<>>
  /\ last.call.base_mesh_index > 0 /\ last.call.mesh > 0
  /\ last.value = Some(last.call.base_mesh_index + last.call.mesh)

\* the primitive lacks a required stream: it has no accessor for it, or the
\* accessor's buffer is not in the loaded buffer set
Lacks(prim) ==
  \E s \in Streams :
    \/ IsNone(prim.accessors[s])
    \/ Unwrap(prim.accessors[s]) >= Len(Unwrap(buffers))

Defective(c) == {p \in 1..Len(SourceMesh(c)) : Lacks(SourceMesh(c)[p])}
FirstDefective(c) == CHOOSE p \in Defective(c) : \A q \in Defective(c) : p <= q

Pushes(events) ==
  Cardinality({i \in 1..Len(events) : events[i].op = "primitive_push"})

StreamErrors == {StreamError[s] : s \in Streams}

\* C5 as stated: when a primitive of the loaded mesh lacks a required stream,
\* wherever it stands in the mesh, the call yields an error and the primitive
\* arena after the call is the primitive arena before it
C5_RejectionLeavesArena ==
  [][(MeshCallStep /\ Defective(last'.call) # {}) =>
       /\ last'.kind = "Err"
       /\ primitive_storage' = primitive_storage]_vars

\* C5 amended: when a primitive of the loaded mesh lacks a required stream and
\* the mesh slot is empty, the call returns no handle and leaves the slot
\* empty; the primitive arena keeps its entries and grows by at most the
\* primitives that precede the first such primitive; when that primitive is
\* the first of the mesh the call yields the missing-stream error and the
\* primitive arena is unchanged
C5_MissingStreamRejected ==
  [][(/\ MeshCallStep
      /\ Defective(last'.call) # {}
      /\ Target(last'.call) \in DOMAIN mesh_storage
      /\ IsNone(mesh_storage[Target(last'.call)])) =>
       /\ last'.kind # "Ok"
       /\ last'.value = None
       /\ IsNone(mesh_storage'[Target(last'.call)])
       /\ IsPrefix(primitive_storage, primitive_storage')
       /\ Len(primitive_storage') - Len(primitive_storage) <= FirstDefective(last'.call) - 1
       /\ FirstDefective(last'.call) = 1 =>
            /\ last'.kind = "Err"
            /\ last'.msg \in StreamErrors
            /\ primitive_storage' = primitive_storage]_vars

\* the defective primitive is the second of the mesh and the first one has
\* been appended before the error
C5_Witness ==
  /\ MeshCalled /\ last.kind = "Err" /\ last.msg \in StreamErrors
  /\ IsSome(buffers) /\ FirstDefective(last.call) = 2
  /\ Pushes(last.events) = 1

\* C6: a call that fails for a mesh whose slot was empty leaves that slot
\* empty and returns no handle; the primitives it appended and the material
\* slots it populated before failing stay, and so does everything that was in
\* the arenas before the call
C6_FailureLeavesMeshEmpty ==
  [][(/\ MeshCallStep
      /\ last'.kind # "Ok"
      /\ Target(last'.call) \in DOMAIN mesh_storage
      /\ IsNone(mesh_storage[Target(last'.call)])) =>
       /\ IsNone(mesh_storage'[Target(last'.call)])
       /\ last'.value = None
       /\ IsPrefix(primitive_storage, primitive_storage')
       /\ Len(primitive_storage') = Len(primitive_storage) + Pushes(last'.events)
       /\ \A i \in (Len(primitive_storage) + 1)..Len(primitive_storage') :
            IsSome(primitive_storage'[i])
       /\ \A h \in DOMAIN material_storage :
            /\ IsSome(material_storage[h]) => material_storage'[h] = material_storage[h]
            /\ Count(last'.events, "material_write", h) > 0 => IsSome(material_storage'[h])]_vars

\* a failed call that had appended a primitive and populated a material slot
C6_Witness ==
  /\ MeshCalled /\ last.kind = "Err"
  /\ IsNone(mesh_storage[Target(last.call)])
  /\ Pushes(last.events) = 1
  /\ \E h \in DOMAIN material_storage :
       Count(last.events, "material_write", h) = 1 /\ IsSome(material_storage[h])

MaterialFields ==
  {"factors", "albedo", "metallic_roughness", "normal", "ao", "emissive",
   "emissive_factor_buffer"}

\* the steps of a complete run of the builder for handle h, in order
HasStep(events, op, slot, h) ==
  \E i \in 1..Len(events) :
    events[i].op = op /\ events[i].slot = slot /\ events[i].handle = h

\* the source material of the builder run for h in the call of l
BuiltFrom(l, h) ==
  LET i == CHOOSE j \in 1..Len(l.events) :
             l.events[j].op = "builder_start" /\ l.events[j].handle = h
  IN gltf[l.call.doc].materials[Unwrap(SourceMesh(l.call)[l.events[i].prim].material) + 1]

\* the material lacks a required texture and no slot before it holds an
\* embedded image
LacksRequired(m) ==
  \E i \in 1..Len(RequiredTextures) :
    /\ IsNone(m[RequiredTextures[i]])
    /\ \A j \in 1..(i - 1) :
         IsSome(m[RequiredTextures[j]]) => Unwrap(m[RequiredTextures[j]]).source = "Uri"

\* the environment made a step of the builder run for h fail in the call of
\* l: the last step of the call is the failing one, and when it is the load
\* of an image the image is a file, so that the load was attempted
BuilderStepFailed(l, h) ==
  /\ l.call.fail.op \in {"load_image", "build_texture", "create_buffer", "upload_buffer"}
  /\ l.events # <<>>
  /\ FailPoint(l.events[Len(l.events)]) = l.call.fail
  /\ l.call.fail.op = "load_image" =>
       Unwrap(BuiltFrom(l, h)[l.call.fail.slot]).source = "Uri"

C8_ErrorSurface ==
  /\ last.kind \in {"", "Ok", "Err"}
  /\ last.kind = "Ok" => IsSome(last.value)
  /\ last.kind = "Err" => last.msg # ""

BufferCallStep == last = Idle /\ last'.call.fn = "load_from_gltf"

\* buffer i of the document gets loaded and has fewer bytes than declared:
\* it and the buffers before it are readable files
ShortLoaded(doc, fs) ==
  \E i \in 1..Len(doc.buffers) :
    /\ \A j \in 1..i :
         /\ doc.buffers[j].source = "Uri" /\ doc.buffers[j].scheme = "file"
         /\ IsSome(fs[doc.buffers[j].uri])
    /\ Len(Unwrap(fs[doc.buffers[i].uri])) < doc.buffers[i].length

Complete(set, doc) ==
  /\ Len(set) = Len(doc.buffers)
  /\ \A i \in 1..Len(set) : Len(set[i]) >= doc.buffers[i].length

\* C9: a load_from_gltf call in which a loaded buffer is shorter than its
\* declared length ends with the length assertion failing and yields no
\* buffer set; the buffer set a load_gltf_mesh call reads primitives from
\* is always one in which every buffer covers its declared length
C9_ShortBufferRejected ==
  [][/\ (BufferCallStep /\ ShortLoaded(gltf[last'.call.doc], last'.call.fs)) =>
          /\ last'.kind # "Ok"
          /\ last'.msg = "assertion failed: data.len() >= buffer.length()"
          /\ last'.value = None
          /\ buffers' = buffers
     /\ (MeshCallStep /\ last'.events # <<>>) =>
          /\ IsSome(buffers)
          /\ \E d \in 1..Len(gltf) : Complete(Unwrap(buffers), gltf[d])]_vars

C9_Witness ==
  /\ last.call.fn = "load_from_gltf"
  /\ ShortLoaded(gltf[last.call.doc], last.call.fs)
  /\ last.kind = "Panic"
  /\ last.call.doc = 2

\* C10: a successful load of a mesh with n primitives whose slot was empty
\* stores the n handles Len, .., Len + n - 1 of the primitives it appended,
\* in source order, with the given max_instances; the n new entries carry the
\* mesh handle and base_material_index plus the material's source index
C10_FirstLoadResult ==
  [][(/\ MeshCallStep
      /\ last'.kind = "Ok"
      /\ IsNone(mesh_storage[Target(last'.call)])) =>
       LET c == last'.call
           n == Len(SourceMesh(c))
           old == Len(primitive_storage)
       IN /\ mesh_storage'[Target(c)] =
               Some([primitives |-> [i \in 1..n |-> old + i - 1],
                     max_instances |-> c.max_instances])
          /\ Len(primitive_storage') = old + n
          /\ IsPrefix(primitive_storage, primitive_storage')
          /\ \A i \in 1..n :
               primitive_storage'[old + i] =
                 Some([mesh_data |-> <<c.doc, c.mesh, i>>,
                       mesh_handle |-> Target(c),
                       mat |-> c.base_material_index
                                 + Unwrap(SourceMesh(c)[i].material)])]_vars

\* the scenario of the specification after an earlier load: mesh 1 of
\* document A with its two primitives on material 0
C10_Witness ==
  /\ MeshCalled /\ last.kind = "Ok" /\ last.events # <<>>
  /\ last.call.doc = 1 /\ last.call.mesh = 1
  /\ Len(Unwrap(mesh_storage[Target(last.call)]).primitives) = 2
  /\ Len(primitive_storage) = 3
  /\ last.call.base_material_index # last.call.base_mesh_index

\* the documents whose planned mesh (material) range holds the handle h
MeshOwners(h) == {d \in 1..2 : h \in MeshRange(gltf[d], partition[d][1])}
MaterialOwners(h) == {d \in 1..2 : h \in MaterialRange(gltf[d], partition[d][2])}

\* C11: with the two documents loaded on disjoint planned ranges, after every
\* call each populated mesh slot was populated from the document that owns
\* its range and lists primitives of that document only, each populated
\* material slot holds a material of the document that owns its range, and a
\* call answered by the dedup check is answered from a slot populated from
\* the call's own document and mesh
C11_DisjointBases ==
  [][MeshCallStep =>
       /\ \A h \in DOMAIN mesh_storage :
            IsSome(mesh_storage'[h]) =>
              /\ MeshOwners(h) = {Unwrap(mesh_origin'[h]).doc}
              /\ \A i \in 1..Len(Unwrap(mesh_storage'[h]).primitives) :
                   LET e == Unwrap(primitive_storage'[Unwrap(mesh_storage'[h]).primitives[i] + 1])
                   IN /\ e.mesh_data[1] \in MeshOwners(h)
                      /\ e.mesh_handle = h
                      /\ MaterialOwners(e.mat) = {e.mesh_data[1]}
       /\ \A h \in DOMAIN material_storage :
            IsSome(material_storage'[h]) =>
              /\ MaterialOwners(h) = {Unwrap(material_storage'[h]).factors[1]}
              /\ h = partition[Unwrap(material_storage'[h]).factors[1]][2]
                       + Unwrap(material_storage'[h]).factors[2]
       /\ (last'.kind = "Ok" /\ last'.events = <<>>) =>
            /\ IsSome(mesh_origin[Target(last'.call)])
            /\ Unwrap(mesh_origin[Target(last'.call)]).doc = last'.call.doc
            /\ Unwrap(mesh_origin[Target(last'.call)]).mesh = last'.call.mesh]_vars

\* both documents have populated a mesh slot and a material slot, the second
\* document sits below the first in one arena, and the call is answered by
\* the dedup check
C11_Witness ==
  /\ MeshCalled /\ last.kind = "Ok" /\ last.events = <<>>
  /\ partition # NoPartition
  /\ partition[2][1] < partition[1][1] \/ partition[2][2] < partition[1][2]
  /\ \A d \in 1..2 :
       /\ \E h \in MeshRange(gltf[d], partition[d][1]) : IsSome(mesh_storage[h])
       /\ \E h \in MaterialRange(gltf[d], partition[d][2]) : IsSome(material_storage[h])

\* C12: a material slot populated from a source material without emissive
\* texture holds the 1x1 black sRGB placeholder as its emissive texture, and
\* one populated from a source material with an emissive texture holds the
\* texture loaded from that image as sRGB, not the placeholder
C12_EmissiveDefault ==
  [][MeshCallStep =>
       \A h \in DOMAIN material_storage :
         (IsNone(material_storage[h]) /\ IsSome(material_storage'[h])) =>
           LET m == BuiltFrom(last', h)
               data == Unwrap(material_storage'[h])
           IN /\ "emissive" \in DOMAIN data
              /\ IF IsNone(m["emissive"])
                 THEN /\ data["emissive"] = BuildTexture(PlaceholderBuilder, ShaderReadState)
                      /\ data["emissive"].image = "1x1 black"
                      /\ data["emissive"].repr = "Srgb"
                      /\ ~HasStep(last'.events, "load_image", "emissive", h)
                 ELSE /\ data["emissive"].image = Unwrap(m["emissive"]).uri
                      /\ data["emissive"].repr = "Srgb"
                      /\ data["emissive"].generate_mips = last'.call.generate_mips
                      /\ data["emissive"].image # PlaceholderBuilder.image
                      /\ HasStep(last'.events, "load_image", "emissive", h)]_vars

\* a call with generate_mips that populated a slot from a material without
\* emissive texture, next to a slot populated from a material with one
C12_Witness ==
  /\ MeshCalled /\ last.kind = "Ok" /\ last.call.generate_mips
  /\ \E h \in DOMAIN material_storage :
       /\ Count(last.events, "material_write", h) = 1
       /\ IsNone(BuiltFrom(last, h)["emissive"])
       /\ Unwrap(material_storage[h]).emissive.image = "1x1 black"
  /\ \E h \in DOMAIN material_storage :
       /\ IsSome(material_storage[h])
       /\ Unwrap(material_storage[h]).emissive.image # "1x1 black"

\* the places <<slot, position>> where the primitive handle ph is listed
ListedAt(ph) ==
  {sp \in (DOMAIN mesh_storage) \X (1..(MaxPrimitives + 1)) :
     /\ IsSome(mesh_storage[sp[1]])
     /\ sp[2] <= Len(Unwrap(mesh_storage[sp[1]]).primitives)
     /\ Unwrap(mesh_storage[sp[1]]).primitives[sp[2]] = ph}

\* C13: while every load_gltf_mesh call so far has succeeded, each entry of
\* the primitive arena is populated and its handle is listed exactly once, in
\* the primitive list of one populated mesh slot, whose handle is the entry's
\* mesh_handle
C13_PrimitiveOwnership ==
  (failures = 0 /\ last.kind \in {"", "Ok"}) =>
    \A i \in 1..Len(primitive_storage) :
      /\ IsSome(primitive_storage[i])
      /\ Cardinality(ListedAt(i - 1)) = 1
      /\ \A sp \in ListedAt(i - 1) : sp[1] = Unwrap(primitive_storage[i]).mesh_handle

\* three primitives owned by two meshes, one of them at a non-zero base
C13_Witness ==
  /\ failures = 0 /\ MeshCalled /\ last.kind = "Ok"
  /\ Len(primitive_storage) = 3
  /\ Cardinality({h \in DOMAIN mesh_storage : IsSome(mesh_storage[h])}) = 2
  /\ \E i \in 1..3 : Unwrap(primitive_storage[i]).mesh_handle = 2

\* the place of a step in the body of the loop of lines 132-290
Rank(op) ==
  CASE op = "read_streams" -> 1
    [] op = "mesh_build" -> 2
    [] op = "material_index" -> 3
    [] op = "builder_start" -> 4
    [] op \in {"load_image", "build_texture", "create_buffer", "upload_buffer"} -> 5
    [] op = "material_write" -> 6
    [] op = "primitive_push" -> 7
    [] op = "mesh_write" -> 8

StepsOf(events, p) == {i \in 1..Len(events) : events[i].prim = p}
HasOp(events, p, op) == \E i \in StepsOf(events, p) : events[i].op = op

\* C14: in every call the steps of a primitive come in the order stream
\* checks, mesh build, material index, material build, append, and after the
\* steps of the primitives before it; a primitive with the default material
\* fails at the material index, after its mesh build and before any material
\* build or append; the material build is made exactly when the slot is empty
\* at that point; the mesh slot is written as the last step, after the append
\* of every primitive of the mesh, and a populated mesh slot lists only
\* handles of entries the primitive arena holds
C14_StepOrdering ==
  [][MeshCallStep =>
       LET es == last'.events
           c == last'.call
           n == Len(SourceMesh(c))
       IN /\ \A i, j \in 1..Len(es) :
               i < j =>
                 /\ es[i].op # "mesh_write"
                 /\ es[j].op # "mesh_write" =>
                      \/ es[i].prim < es[j].prim
                      \/ /\ es[i].prim = es[j].prim
                         /\ Rank(es[i].op) <= Rank(es[j].op)
                         /\ Rank(es[i].op) = Rank(es[j].op) => Rank(es[i].op) = 5
          /\ \A p \in 1..n :
               /\ HasOp(es, p, "mesh_build") => HasOp(es, p, "read_streams")
               /\ HasOp(es, p, "material_index") => HasOp(es, p, "mesh_build")
               /\ HasOp(es, p, "builder_start") => HasOp(es, p, "material_index")
               /\ HasOp(es, p, "primitive_push") => HasOp(es, p, "material_index")
               /\ (p > 1 /\ StepsOf(es, p) # {}) => HasOp(es, p - 1, "primitive_push")
               /\ (HasOp(es, p, "material_index") /\ IsNone(SourceMesh(c)[p].material)) =>
                    /\ last'.kind = "Err"
                    /\ last'.msg = "Default material unimplemented"
                    /\ es[Len(es)] = Step("material_index", p, -1)
               /\ (HasOp(es, p, "material_index") /\ IsSome(SourceMesh(c)[p].material)) =>
                    LET h == c.base_material_index + Unwrap(SourceMesh(c)[p].material)
                    IN h \in DOMAIN material_storage =>
                         (HasOp(es, p, "builder_start") <=>
                            /\ IsNone(material_storage[h])
                            /\ \A i \in 1..Len(es) :
                                 ~(/\ es[i].op = "material_write"
                                   /\ es[i].handle = h
                                   /\ es[i].prim < p))
          /\ \A h \in DOMAIN mesh_storage :
               (IsNone(mesh_storage[h]) /\ IsSome(mesh_storage'[h])) =>
                  /\ es[Len(es)] = Step("mesh_write", 0, h)
                  /\ \A p \in 1..n : HasOp(es, p, "primitive_push")
          /\ \A h \in DOMAIN mesh_storage :
               IsSome(mesh_storage'[h]) =>
                 \A i \in 1..Len(Unwrap(mesh_storage'[h]).primitives) :
                   /\ Unwrap(mesh_storage'[h]).primitives[i] + 1 \in DOMAIN primitive_storage'
                   /\ IsSome(primitive_storage'[Unwrap(mesh_storage'[h]).primitives[i] + 1])]_vars

\* a call for a mesh of two primitives on one material: the first builds the
\* material, the second finds the slot populated, then the mesh slot is
\* written
C14_Witness ==
  /\ MeshCalled /\ last.kind = "Ok"
  /\ HasOp(last.events, 1, "builder_start") /\ HasOp(last.events, 1, "primitive_push")
  /\ HasOp(last.events, 2, "material_index") /\ ~HasOp(last.events, 2, "builder_start")
  /\ HasOp(last.events, 2, "primitive_push")
  /\ last.events[Len(last.events)].op = "mesh_write"

Looked == last.call.fn \in {"buffer", "view"}

\* C15 as stated: buffer(id) yields none for an index not below the number of
\* loaded buffers and the whole buffer otherwise; view(v) yields none for a
\* buffer index out of range and otherwise the bytes offset .. offset + length
\* of the buffer, for every view descriptor
C15_BufferLookups ==
  Looked =>
    LET set == Unwrap(buffers)
        v == last.call.view
    IN /\ last.kind = "Ok"
       /\ last.call.fn = "buffer" =>
            Unwrap(last.value) = IF last.call.index < Len(set)
                                 THEN Some(set[last.call.index + 1])
                                 ELSE None
       /\ last.call.fn = "view" =>
            IF v.buffer >= Len(set) THEN Unwrap(last.value) = None
            ELSE /\ IsSome(Unwrap(last.value))
                 /\ Unwrap(Unwrap(last.value)) =
                      [i \in 1..v.length |-> set[v.buffer + 1][v.offset + i]]

\* the field of MaterialData built from each texture slot
FieldOf ==
  [t \in TextureNames |->
     CASE t = "base_color" -> "albedo"
       [] t = "occlusion" -> "ao"
       [] OTHER -> t]

ColorSlots == {"base_color", "emissive"}

\* C16: in every run of the Material Builder the albedo and a present
\* emissive image are requested as sRGB and the metallic-roughness, normal
\* and occlusion images as linear data, each with the generate_mips of the
\* call; the textures of a populated slot carry that representation and flag
\* and are all built with the one image state: the queue, the fragment-shader
\* stage, shader-read access, the shader-read-only layout
C16_ColorSpacePolicy ==
  [][MeshCallStep =>
       /\ \A i \in 1..Len(last'.events) :
            LET e == last'.events[i] IN
              /\ e.op = "load_image" =>
                   /\ e.srgb = (e.slot \in ColorSlots)
                   /\ e.mips = last'.call.generate_mips
              /\ (e.op = "build_texture" /\ e.image # PlaceholderBuilder.image) =>
                   /\ e.srgb = (e.slot \in ColorSlots)
                   /\ e.mips = last'.call.generate_mips
       /\ \A h \in DOMAIN material_storage :
            (IsNone(material_storage[h]) /\ IsSome(material_storage'[h])) =>
              LET data == Unwrap(material_storage'[h]) IN
                \A t \in TextureNames :
                  /\ data[FieldOf[t]].state = ShaderReadState
                  /\ data[FieldOf[t]].state = data["albedo"].state
                  /\ data[FieldOf[t]].repr = IF t \in ColorSlots THEN "Srgb" ELSE "Unorm"
                  /\ IsSome(BuiltFrom(last', h)[t]) =>
                       /\ data[FieldOf[t]].generate_mips = last'.call.generate_mips
                       /\ data[FieldOf[t]].image = Unwrap(BuiltFrom(last', h)[t]).uri]_vars

\* a call with generate_mips that populated a slot from a material with an
\* emissive texture
C16_Witness ==
  /\ MeshCalled /\ last.call.generate_mips
  /\ \E h \in DOMAIN material_storage :
       /\ Count(last.events, "material_write", h) = 1
       /\ HasStep(last.events, "load_image", "emissive", h)
       /\ HasStep(last.events, "load_image", "normal", h)
       /\ Unwrap(material_storage[h]).emissive.generate_mips
       /\ Unwrap(material_storage[h]).normal.repr = "Unorm"

\* C18: in every state between calls, after failed calls too, each entry of
\* the primitive arena is populated and its mat field is the handle of a
\* populated material slot
C18_MaterialIntegrity ==
  \A i \in 1..Len(primitive_storage) :
    /\ IsSome(primitive_storage[i])
    /\ Unwrap(primitive_storage[i]).mat \in DOMAIN material_storage
    /\ IsSome(material_storage[Unwrap(primitive_storage[i]).mat])

\* after a failed call that appended a primitive before failing
C18_Witness ==
  /\ MeshCalled /\ last.kind = "Err" /\ failures = 1
  /\ Pushes(last.events) = 1
  /\ Len(primitive_storage) >= 2
  /\ \E i, j \in 1..Len(primitive_storage) :
       Unwrap(primitive_storage[i]).mat # Unwrap(primitive_storage[j]).mat

\* the material handles of the primitives of the mesh a call loads
MaterialTargets(c) ==
  {c.base_material_index + Unwrap(SourceMesh(c)[p].material) :
     p \in {q \in 1..Len(SourceMesh(c)) : IsSome(SourceMesh(c)[q].material)}}

\* C19: a call of load_gltf_mesh, whatever its outcome, keeps the length of
\* the mesh arena and of the material arena, leaves every mesh slot other
\* than base_mesh_index + mesh index and every material slot other than
\* base_material_index + a material index of the mesh's primitives as it
\* was, keeps every entry of the primitive arena in place (the arena only
\* grows at its end) and leaves the buffer set as it was
C19_Frame ==
  [][MeshCallStep =>
       /\ DOMAIN mesh_storage' = DOMAIN mesh_storage
       /\ DOMAIN material_storage' = DOMAIN material_storage
       /\ \A h \in DOMAIN mesh_storage :
            h # Target(last'.call) => mesh_storage'[h] = mesh_storage[h]
       /\ \A h \in DOMAIN material_storage :
            h \notin MaterialTargets(last'.call) => material_storage'[h] = material_storage[h]
       /\ Len(primitive_storage') >= Len(primitive_storage)
       /\ \A i \in 1..Len(primitive_storage) : primitive_storage'[i] = primitive_storage[i]
       /\ buffers' = buffers]_vars

\* a call at non-zero offsets that wrote a mesh slot and a material slot and
\* appended a primitive next to slots and entries populated before
C19_Witness ==
  /\ MeshCalled /\ last.kind = "Ok"
  /\ last.call.base_mesh_index + last.call.base_material_index > 0
  /\ Count(last.events, "mesh_write", Target(last.call)) = 1
  /\ \E h \in DOMAIN material_storage : Count(last.events, "material_write", h) = 1
  /\ \E h \in DOMAIN mesh_storage : h # Target(last.call) /\ IsSome(mesh_storage[h])
  /\ \E h \in DOMAIN material_storage :
       h \notin MaterialTargets(last.call) /\ IsSome(material_storage[h])
  /\ Len(primitive_storage) > Pushes(last.events)

\* C17: with the two callers on disjoint planned ranges and their calls
\* interleaved at the arena reads and writes, no material slot and no mesh
\* slot is written more than once, a slot is populated exactly when it has
\* been written once, the two callers never build for the same handle at the
\* same time, and a caller that has read a slot as empty and is on its way to
\* write it still finds it empty
C17_PartitionedParallel ==
  /\ \A h \in DOMAIN writes.material :
       /\ writes.material[h] <= 1
       /\ writes.material[h] = 1 <=> IsSome(material_storage[h])
  /\ \A h \in DOMAIN writes.mesh :
       /\ writes.mesh[h] <= 1
       /\ writes.mesh[h] = 1 <=> IsSome(mesh_storage[h])
  /\ \A t \in 1..2 :
       /\ threads[t].pc = "build" => IsNone(material_storage[threads[t].mat_idx])
       /\ threads[t].pc # "idle" => IsNone(mesh_storage[ThreadMeshIndex(t)])
  /\ (threads[1].pc # "idle" /\ threads[2].pc # "idle") =>
       ThreadMeshIndex(1) # ThreadMeshIndex(2)
  /\ (threads[1].pc = "build" /\ threads[2].pc = "build") =>
       threads[1].mat_idx # threads[2].mat_idx

\* both callers have read their material slot as empty and are building at
\* the same time, after a first mesh and its material were written
C17_Witness ==
  /\ threads[1].pc = "build" /\ threads[2].pc = "build"
  /\ \E h \in DOMAIN writes.material : writes.material[h] = 1
  /\ \E h \in DOMAIN writes.mesh : writes.mesh[h] = 1
  /\ failures > 0

====
